---- MODULE Spec2Model ----
(***************************************************************************)
(* gpmd/fim, src/main.go: a file integrity monitor.  main loads the prior  *)
(* checksum snapshot, starts N Worker goroutines and one Outputter         *)
(* goroutine, walks every configured root (walkPathNSum hands each regular *)
(* file to a worker over the unbuffered channel wrkQueue), sends one nil   *)
(* per worker, waits on the WaitGroup, sleeps, and then marshals and       *)
(* writes globalO and reports newfiles / globalDiff.                       *)
(*                                                                         *)
(* Both channels are unbuffered (make(chan T)), so a send and the matching *)
(* receive are one joint step of the two goroutines.                       *)
(***************************************************************************)
EXTENDS Integers, Sequences, FiniteSets, TLC

\* ------------------------------------------------------------------ bounds
\* Pool sizes 1..MaxWorkers are explored (-cpuLimit, or runtime.NumCPU()).
MaxWorkers == 2
\* The program is started at most MaxRuns times (cron) in RunsSpec.
MaxRuns == 2
\* checkSumSHA1 is run on files of up to MaxBlocks full chunks and a rest.
MaxBlocks == 2

\* const CHUNKSIZE uint64 = 8192
CHUNKSIZE == 8192

\* -------------------------------------------------------------- filesystem
\* The directory tree the scans run over.  kind is what Lstat reports
\* ("dir", "file", "symlink"); lstatOk = FALSE is an entry Walk cannot
\* stat; readable = FALSE is a file os.Open fails on, or a directory
\* readDirNames fails on (Walk then calls the callback with the error and
\* the directory's FileInfo, and descends no further); children are the
\* names in the order readDirNames returns them (sorted).  The tree has a
\* dangling symlink /z, and the empty path, which Lstat fails on (it is
\* what main walks when EvalSymlinks fails, lines 215-220).
Entries ==
  { [path |-> "/r",     name |-> "r", parent |-> "/",    kind |-> "dir",
     lstatOk |-> TRUE,  readable |-> TRUE,  data |-> "",  target |-> "",
     children |-> <<"/r/a", "/r/d", "/r/u", "/r/x">>],
    [path |-> "/r/a",   name |-> "a", parent |-> "/r",   kind |-> "file",
     lstatOk |-> TRUE,  readable |-> TRUE,  data |-> "A", target |-> "",
     children |-> <<>>],
    [path |-> "/r/d",   name |-> "d", parent |-> "/r",   kind |-> "dir",
     lstatOk |-> TRUE,  readable |-> TRUE,  data |-> "",  target |-> "",
     children |-> <<"/r/d/b", "/r/d/k", "/r/d/n">>],
    [path |-> "/r/d/b", name |-> "b", parent |-> "/r/d", kind |-> "file",
     lstatOk |-> TRUE,  readable |-> TRUE,  data |-> "B", target |-> "",
     children |-> <<>>],
    [path |-> "/r/d/k", name |-> "k", parent |-> "/r/d", kind |-> "symlink",
     lstatOk |-> TRUE,  readable |-> TRUE,  data |-> "",  target |-> "/r/a",
     children |-> <<>>],
    [path |-> "/r/d/n", name |-> "n", parent |-> "/r/d", kind |-> "file",
     lstatOk |-> TRUE,  readable |-> FALSE, data |-> "N", target |-> "",
     children |-> <<>>],
    [path |-> "/r/u",   name |-> "u", parent |-> "/r",   kind |-> "file",
     lstatOk |-> FALSE, readable |-> FALSE, data |-> "",  target |-> "",
     children |-> <<>>],
    [path |-> "/r/x",   name |-> "x", parent |-> "/r",   kind |-> "dir",
     lstatOk |-> TRUE,  readable |-> FALSE, data |-> "",  target |-> "",
     children |-> <<>>],
    [path |-> "/l",     name |-> "l", parent |-> "/",    kind |-> "symlink",
     lstatOk |-> TRUE,  readable |-> TRUE,  data |-> "",  target |-> "/r",
     children |-> <<>>],
    [path |-> "/z",     name |-> "z", parent |-> "/",    kind |-> "symlink",
     lstatOk |-> TRUE,  readable |-> FALSE, data |-> "",  target |-> "/gone",
     children |-> <<>>],
    [path |-> "",       name |-> "",  parent |-> "/",    kind |-> "none",
     lstatOk |-> FALSE, readable |-> FALSE, data |-> "",  target |-> "",
     children |-> <<>>] }

Entry(p) == CHOOSE e \in Entries : e.path = p

\* The regular files a scan can checksum.
Files == { e.path : e \in { x \in Entries : x.kind = "file" /\ x.lstatOk } }

\* hex.EncodeToString(hash.Sum(nil)): the digest as a string, one per content.
SHA1Hex(data) == "sha1:" \o data

\* ------------------------------------------------------------ pure helpers
inSlice(words, word) == \E k \in 1..Len(words) : words[k] = word

\* checkSumSHA1: the error text when os.Open fails, the hex digest otherwise.
checkSumSHA1(pathname) ==
  IF ~Entry(pathname).readable
    THEN "open " \o pathname \o ": permission denied"
    ELSE SHA1Hex(Entry(pathname).data)

\* filepath.EvalSymlinks on a configured root that is a symlink: the
\* target, or "" (with an error main only prints) when the target does
\* not exist.
EvalSymlinks(root) ==
  IF \E e \in Entries : e.path = Entry(root).target /\ e.lstatOk
    THEN Entry(root).target
    ELSE ""

\* walkPathNSum, lines 112-115: ferrors after the visit of the entry at
\* path p; only a visit without FileInfo (f == nil) adds an entry.
walkPathNSumErrors(fe, p) ==
  IF ~Entry(p).lstatOk THEN Append(fe, "can't read " \o p) ELSE fe

\* The value walkPathNSum returns for the entry at path p ("nil" or "SkipDir").
walkPathNSumReturn(ignoredList, curRoot, p) ==
  LET e == Entry(p) IN
  IF ~e.lstatOk THEN "nil"
  ELSE IF inSlice(ignoredList, curRoot \o e.name) THEN "SkipDir"
  ELSE "nil"

\* Whether walkPathNSum reaches the send on wrkQueue for the entry at path p.
walkPathNSumSends(ignoredList, curRoot, p) ==
  LET e == Entry(p) IN
  /\ e.lstatOk
  /\ ~inSlice(ignoredList, curRoot \o e.name)
  /\ e.kind # "symlink"
  /\ e.kind # "dir"

\* filepath.Walk: the entries still to visit after the callback returned
\* ret for the head entry p of todo.  SkipDir on a directory skips its
\* contents; SkipDir on anything else skips the rest of the containing
\* directory; a directory the callback accepted is descended into.
WalkRest(todo, ret) ==
  LET e    == Entry(Head(todo))
      rest == Tail(todo)
  IN  IF ~e.lstatOk THEN rest
      ELSE IF ret = "SkipDir"
        THEN IF e.kind = "dir" THEN rest
             ELSE SelectSeq(rest, LAMBDA q : Entry(q).parent # e.parent)
      ELSE IF e.kind = "dir" THEN e.children \o rest
      ELSE rest

\* A map[string]string: a function from the present keys to their values.
EmptyMap == [p \in {} |-> ""]

\* m[k] = v on a Go map.
MapPut(m, k, v) == [x \in (DOMAIN m) \cup {k} |-> IF x = k THEN v ELSE m[x]]

\* ------------------------------------------------------------------ inputs
\* The lists of roots a configuration may name: one directory, a directory
\* and one nested in it, the same directory twice, a symlink to a
\* directory (the deployment layout of the README), no root at all, a
\* root that cannot be stat'd (alone, and after a good root), and a
\* dangling symlink.
FolderLists ==
  { <<"/r">>, <<"/r", "/r/d">>, <<"/r/d", "/r/d">>, <<"/l">>,
    <<>>, <<"/r/u">>, <<"/r/d", "/r/u">>, <<"/z">> }

\* Contents of the storage file before the first run: absent (first run),
\* or an earlier state in which /r/a had today's content, /r/d/b had other
\* content, /r/d/n was not there yet and a since-removed file was.
PriorSnapshots ==
  { EmptyMap,
    [p \in {"/r/a", "/r/d/b", "/r/gone"} |->
       IF p = "/r/a" THEN SHA1Hex("A")
       ELSE IF p = "/r/d/b" THEN SHA1Hex("B0")
       ELSE SHA1Hex("G")] }

VARIABLES
  conf,         \* conf.Folders, conf.Ignored
  nPtr,         \* *nPtr: the number of workers
  storage,      \* contents of the file conf.Storage
  globalI,      \* prior snapshot
  globalO,      \* snapshot under construction
  globalDiff,   \* changed files
  newfiles,     \* new files
  ferrors,      \* walk errors
  currentRoot,  \* root of the walk in progress
  wg,           \* WaitGroup counter
  mainPc,       \* position of main
  rootIdx,      \* index of the root being walked (range loop, line 208)
  walkTodo,     \* filepath.Walk: paths still to visit under the current root
  sentI,        \* loop counter of the sentinel loop (line 226)
  heap,         \* the fInfo values allocated so far; a *fInfo is an index, 0 is nil
  wPc,          \* position of each worker
  fileToCheck,  \* each worker's fileToCheck pointer
  outPc,        \* position of the Outputter
  out,          \* the Outputter's out variable
  b,            \* main's marshalled copy of globalO (line 232)
  slack,        \* messages handed to sendSlack
  logged,       \* records written to the log file
  run,          \* number of program starts so far
  hRecv,        \* history: per *fInfo, how many times a worker received it
  hRes,         \* history: per *fInfo, how many results the Outputter received for it
  hResOk,       \* history: per *fInfo, whether every such result carried its path
  hMerged,      \* history: per *fInfo, how many of its results were merged
  hNil,         \* history: per worker, how many nils it received
  outPtr,       \* history: the *fInfo the Outputter's out was computed from
  cs            \* one call of checkSumSHA1, statement by statement (SumSpec)

configVars == <<conf, nPtr, cs>>
globalVars == <<globalI, globalO, globalDiff, newfiles, ferrors, currentRoot, wg>>
mainVars   == <<mainPc, rootIdx, walkTodo, sentI, heap>>
workerVars == <<wPc, fileToCheck>>
outVars    == <<outPc, out>>
reportVars == <<b, slack, logged>>
histVars   == <<hRecv, hRes, hResOk, hMerged, hNil, outPtr>>
vars == <<configVars, storage, globalVars, mainVars, workerVars, outVars,
          reportVars, run, histVars>>

Workers == 1..nPtr

\* No call of checkSumSHA1 is being followed statement by statement.
SumIdle ==
  [pc |-> "idle", sz |-> 0, len |-> 0, openOk |-> TRUE, blocks |-> 0, i |-> 0,
   off |-> 0, reads |-> <<>>, fed |-> <<>>, result |-> [err |-> "", hex |-> <<>>]]

\* The zero value of item.
ZeroItem == [File |-> "", Checksum |-> ""]

\* State of a freshly started process (package-level initialisers, lines 53-63).
ProcessStart(gI, gO, gD, nf, fe, cr, w, pc, ri, wt, si, hp, wp, fc, op, o, bb) ==
  /\ gI = EmptyMap /\ gO = EmptyMap /\ gD = <<>> /\ nf = <<>> /\ fe = <<>>
  /\ cr = "" /\ w = 0
  /\ pc = "load" /\ ri = 1 /\ wt = <<>> /\ si = 0 /\ hp = <<>>
  /\ wp = [v \in Workers |-> "idle"] /\ fc = [v \in Workers |-> 0]
  /\ op = "idle" /\ o = ZeroItem /\ bb = EmptyMap

HistoryStart(r, s, k, m, n, p) ==
  /\ r = <<>> /\ s = <<>> /\ k = <<>> /\ m = <<>>
  /\ n = [v \in Workers |-> 0] /\ p = 0

Init ==
  /\ conf \in [Folders : FolderLists, Ignored : {<<>>}]
  /\ nPtr \in 1..MaxWorkers
  /\ storage \in PriorSnapshots
  /\ ProcessStart(globalI, globalO, globalDiff, newfiles, ferrors, currentRoot, wg,
                  mainPc, rootIdx, walkTodo, sentI, heap, wPc, fileToCheck,
                  outPc, out, b)
  /\ slack = <<>> /\ logged = <<>>
  /\ run = 1
  /\ HistoryStart(hRecv, hRes, hResOk, hMerged, hNil, outPtr)
  /\ cs = SumIdle

\* The process is running: main has neither returned nor died.
Alive == mainPc \notin {"exited", "crashed", "panicked"}

\* ------------------------------------------------------- code, as operators
\* Mutant of IsSentinel: the first descriptor is taken for the sentinel.
IsSentinel_OffByOne(ptr) == ptr <= 1

\* Worker, line 139: fileToCheck == nil.
IsSentinel(ptr) == ptr = 0

\* Mutant of MakeItem: the result names another file than the descriptor.
MakeItem_WrongPath(fi) == [File |-> "/r/a", Checksum |-> checkSumSHA1(fi.name)]

\* Worker, line 143: item{File: fileToCheck.name, Checksum: cwf(...)}.
MakeItem(fi) == [File |-> fi.name, Checksum |-> checkSumSHA1(fi.name)]

\* Outputter, line 153: len(out.File) == 0.
OutputterBreaks(item) == item.File = ""

\* Mutant of MergeDiff: the checksums are not compared.
MergeDiff_NoCompare(gI, gD, item) ==
  IF item.File \in DOMAIN gI THEN Append(gD, item.File) ELSE gD

\* Outputter, lines 157-160: the changed-files list after one result.
MergeDiff(gI, gD, item) ==
  IF item.File \in DOMAIN gI /\ gI[item.File] # item.Checksum
    THEN Append(gD, item.File) ELSE gD

\* Outputter, lines 157-163: the new-files list after one result.
MergeNew(gI, nf, item) ==
  IF item.File \notin DOMAIN gI THEN Append(nf, item.File) ELSE nf

\* Outputter, line 164: globalO[out.File] = out.Checksum.
MergeO(gO, item) == MapPut(gO, item.File, item.Checksum)

\* main, line 226: the number of nils main sends.
SentinelCount == nPtr

\* main, line 229: wg.Wait() returns when the counter is zero.
WaitReturns(counter) == counter = 0

\* Mutant of AfterWalk: the loop over the roots ends after the first root.
AfterWalk_FirstRootOnly(ri) == "sentinels"

\* main, lines 208 and 223-226: where main goes when the walk of root
\* number ri has returned.
AfterWalk(ri) == IF ri < Len(conf.Folders) THEN "root" ELSE "sentinels"

\* Mutant of WorkerReceiving: wrkQueue takes a pointer whether or not the
\* worker is at its receive.
WorkerReceiving_Always(pc) == TRUE

\* wrkQueue = make(chan *fInfo), line 53: a send on the unbuffered channel
\* completes only while a worker is at its receive (line 138).
WorkerReceiving(pc) == pc = "recv"

\* ------------------------------------------------------------------- main
\* Mutant of MainLoad: the snapshot under construction starts as a copy of
\* the stored one.
MainLoad_SeedsO ==
  /\ mainPc = "load"
  /\ globalI' = storage
  /\ globalO' = storage
  /\ mainPc' = "spawn"
  /\ UNCHANGED <<configVars, storage, globalDiff, newfiles, ferrors,
                 currentRoot, wg, rootIdx, walkTodo, sentI, heap, workerVars,
                 outVars, reportVars, run, histVars>>

\* Lines 178-181: read the configuration and the stored snapshot.
MainLoad ==
  /\ mainPc = "load"
  /\ globalI' = storage
  /\ mainPc' = "spawn"
  /\ UNCHANGED <<configVars, storage, globalO, globalDiff, newfiles, ferrors,
                 currentRoot, wg, rootIdx, walkTodo, sentI, heap, workerVars,
                 outVars, reportVars, run, histVars>>

\* Lines 200-208: wg.Add(1) and go Worker per worker, then go Outputter;
\* main enters the loop over the roots, or passes it when there is none.
MainSpawn ==
  /\ mainPc = "spawn"
  /\ wg' = wg + nPtr
  /\ wPc' = [w \in Workers |-> "recv"]
  /\ outPc' = "recv"
  /\ mainPc' = AfterWalk(0)
  /\ UNCHANGED <<configVars, storage, globalI, globalO, globalDiff, newfiles,
                 ferrors, currentRoot, rootIdx, walkTodo, sentI, heap,
                 fileToCheck, out, reportVars, run, histVars>>

\* Lines 208-223: Lstat the root, resolve it when it is a symlink, set
\* currentRoot and enter filepath.Walk.  When Lstat fails main prints the
\* error and goes on to fileInfo.Mode() on the nil FileInfo (line 214):
\* the nil dereference panics and the process dies.
MainRoot ==
  /\ mainPc = "root"
  /\ LET root   == conf.Folders[rootIdx]
         statOk == Entry(root).lstatOk
         target == IF Entry(root).kind = "symlink" THEN EvalSymlinks(root) ELSE root
     IN  /\ currentRoot' = IF statOk THEN target ELSE currentRoot
         /\ walkTodo' = IF statOk THEN <<target>> ELSE walkTodo
         /\ mainPc' = IF statOk THEN "walk" ELSE "panicked"
  /\ UNCHANGED <<configVars, storage, globalI, globalO, globalDiff, newfiles,
                 ferrors, wg, rootIdx, sentI, heap, workerVars, outVars,
                 reportVars, run, histVars>>

\* walkPathNSum on the next entry, lines 111-126: the visits that end
\* before the send (no FileInfo, ignored, symlink, directory).
WalkNoSend ==
  /\ mainPc = "walk"
  /\ walkTodo # <<>>
  /\ LET p    == Head(walkTodo)
         ret  == walkPathNSumReturn(conf.Ignored, currentRoot, p)
         todo == WalkRest(walkTodo, ret)
     IN  /\ ~walkPathNSumSends(conf.Ignored, currentRoot, p)
         /\ ferrors' = walkPathNSumErrors(ferrors, p)
         /\ walkTodo' = todo
         /\ mainPc' = IF todo = <<>> THEN AfterWalk(rootIdx) ELSE "walk"
         /\ rootIdx' = IF todo = <<>> THEN rootIdx + 1 ELSE rootIdx
  /\ UNCHANGED <<configVars, storage, globalI, globalO, globalDiff, newfiles,
                 currentRoot, wg, sentI, heap, workerVars, outVars, reportVars,
                 run, histVars>>

\* walkPathNSum on a regular file, lines 127-129, together with the
\* receive of line 138 in worker w: the send completes when a worker takes it.
WalkSend(w) ==
  /\ mainPc = "walk"
  /\ walkTodo # <<>>
  /\ Alive
  /\ WorkerReceiving(wPc[w])
  /\ LET p    == Head(walkTodo)
         todo == WalkRest(walkTodo, "nil")
         ptr  == Len(heap) + 1
     IN  /\ walkPathNSumSends(conf.Ignored, currentRoot, p)
         /\ heap' = Append(heap, [name |-> p])
         /\ fileToCheck' = [fileToCheck EXCEPT ![w] = ptr]
         /\ wPc' = [wPc EXCEPT ![w] = "got"]
         /\ hRecv' = Append(hRecv, 1)
         /\ hRes' = Append(hRes, 0)
         /\ hResOk' = Append(hResOk, TRUE)
         /\ hMerged' = Append(hMerged, 0)
         /\ walkTodo' = todo
         /\ mainPc' = IF todo = <<>> THEN AfterWalk(rootIdx) ELSE "walk"
         /\ rootIdx' = IF todo = <<>> THEN rootIdx + 1 ELSE rootIdx
  /\ UNCHANGED <<configVars, storage, globalVars, sentI, outVars, reportVars,
                 run, hNil, outPtr>>

\* Lines 226-228, one iteration: wrkQueue <- nil, taken by worker w.
MainSendNil(w) ==
  /\ mainPc = "sentinels"
  /\ sentI < SentinelCount
  /\ WorkerReceiving(wPc[w])
  /\ fileToCheck' = [fileToCheck EXCEPT ![w] = 0]
  /\ wPc' = [wPc EXCEPT ![w] = "got"]
  /\ hNil' = [hNil EXCEPT ![w] = @ + 1]
  /\ sentI' = sentI + 1
  /\ mainPc' = IF sentI + 1 < SentinelCount THEN "sentinels" ELSE "wait"
  /\ UNCHANGED <<configVars, storage, globalVars, rootIdx, walkTodo, heap,
                 outVars, reportVars, run, hRecv, hRes, hResOk, hMerged, outPtr>>

\* Line 229: wg.Wait().
MainWait ==
  /\ mainPc = "wait"
  /\ WaitReturns(wg)
  /\ mainPc' = "sleep"
  /\ UNCHANGED <<configVars, storage, globalVars, rootIdx, walkTodo, sentI, heap,
                 workerVars, outVars, reportVars, run, histVars>>

\* Line 230: time.Sleep(3 * time.Second).  The sleep waits for the clock
\* and for nothing else: the Outputter may or may not run meanwhile.
MainSleep ==
  /\ mainPc = "sleep"
  /\ mainPc' = "marshal"
  /\ UNCHANGED <<configVars, storage, globalVars, rootIdx, walkTodo, sentI, heap,
                 workerVars, outVars, reportVars, run, histVars>>

\* Line 232: json.Marshal(globalO), without globalL.  While the Outputter
\* holds a result it has not merged, its map write can overlap the
\* iteration: the runtime then either lets the read through or throws
\* "concurrent map iteration and map write" and the process dies.
MainMarshal ==
  /\ mainPc = "marshal"
  /\ \/ /\ b' = globalO
        /\ mainPc' = "write"
     \/ /\ outPc = "merge"
        /\ b' = b
        /\ mainPc' = "crashed"
  /\ UNCHANGED <<configVars, storage, globalVars, rootIdx, walkTodo, sentI, heap,
                 workerVars, outVars, slack, logged, run, histVars>>

\* Line 234: ioutil.WriteFile(conf.Storage, b, 0644).
MainWriteFile ==
  /\ mainPc = "write"
  /\ storage' = b
  /\ mainPc' = "notify"
  /\ UNCHANGED <<configVars, globalVars, rootIdx, walkTodo, sentI, heap,
                 workerVars, outVars, reportVars, run, histVars>>

\* Lines 236-248: the Slack message, sent when either list is non-empty.
MainNotify ==
  /\ mainPc = "notify"
  /\ slack' = IF Len(newfiles) > 0 \/ Len(globalDiff) > 0
                THEN Append(slack, [changed |-> globalDiff, new |-> newfiles])
                ELSE slack
  /\ mainPc' = "log"
  /\ UNCHANGED <<configVars, storage, globalVars, rootIdx, walkTodo, sentI, heap,
                 workerVars, outVars, b, logged, run, histVars>>

\* Lines 249-265: the log file lines for errors, changed and new files
\* (a line per non-empty list), then main returns and the process exits.
MainLog ==
  /\ mainPc = "log"
  /\ logged' = Append(logged, [errors |-> ferrors, changed |-> globalDiff,
                               new |-> newfiles])
  /\ mainPc' = "exited"
  /\ UNCHANGED <<configVars, storage, globalVars, rootIdx, walkTodo, sentI, heap,
                 workerVars, outVars, b, slack, run, histVars>>

\* ----------------------------------------------------------------- Worker
\* Lines 139-142: the received pointer is nil: wg.Done() and leave the loop.
WorkerDone(w) ==
  /\ Alive
  /\ wPc[w] = "got"
  /\ IsSentinel(fileToCheck[w])
  /\ wg' = wg - 1
  /\ wPc' = [wPc EXCEPT ![w] = "done"]
  /\ UNCHANGED <<configVars, storage, globalI, globalO, globalDiff, newfiles,
                 ferrors, currentRoot, mainVars, fileToCheck, outVars,
                 reportVars, run, histVars>>

\* Mutant of OutputterReceiving: outQueue takes an item whether or not the
\* Outputter is at its receive.
OutputterReceiving_Always(pc) == TRUE

\* outQueue = make(chan item), line 54: a send on the unbuffered channel
\* completes only while the Outputter is at its receive (line 152).
OutputterReceiving(pc) == pc = "recv"

\* Line 143 in worker w together with line 152-155 in the Outputter: the
\* worker checksums the file and sends the item, the Outputter receives it.
WorkerSend(w) ==
  /\ Alive
  /\ wPc[w] = "got"
  /\ ~IsSentinel(fileToCheck[w])
  /\ OutputterReceiving(outPc)
  /\ LET ptr == fileToCheck[w]
         it  == MakeItem(heap[ptr])
     IN  /\ out' = it
         /\ outPc' = IF OutputterBreaks(it) THEN "done" ELSE "merge"
         /\ outPtr' = ptr
         /\ hRes' = [hRes EXCEPT ![ptr] = @ + 1]
         /\ hResOk' = [hResOk EXCEPT ![ptr] = @ /\ it.File = heap[ptr].name]
  /\ wPc' = [wPc EXCEPT ![w] = "recv"]
  /\ UNCHANGED <<configVars, storage, globalVars, mainVars, fileToCheck,
                 reportVars, run, hRecv, hMerged, hNil>>

\* -------------------------------------------------------------- Outputter
\* Lines 156-165: classify the result against globalI and store it in globalO.
OutMerge ==
  /\ Alive
  /\ outPc = "merge"
  /\ globalDiff' = MergeDiff(globalI, globalDiff, out)
  /\ newfiles' = MergeNew(globalI, newfiles, out)
  /\ globalO' = MergeO(globalO, out)
  /\ outPc' = "recv"
  /\ hMerged' = [hMerged EXCEPT ![outPtr] = @ + 1]
  /\ UNCHANGED <<configVars, storage, globalI, ferrors, currentRoot, wg, mainVars,
                 workerVars, out, reportVars, run, hRecv, hRes, hResOk, hNil,
                 outPtr>>

\* ------------------------------------------------------------------- cron
\* README, "Running it from cron": the program is started again with the
\* same configuration; only the storage and log files survive.
Restart ==
  /\ ~Alive
  /\ run < MaxRuns
  /\ run' = run + 1
  /\ ProcessStart(globalI', globalO', globalDiff', newfiles', ferrors',
                  currentRoot', wg', mainPc', rootIdx', walkTodo', sentI', heap',
                  wPc', fileToCheck', outPc', out', b')
  /\ HistoryStart(hRecv', hRes', hResOk', hMerged', hNil', outPtr')
  /\ UNCHANGED <<configVars, storage, slack, logged>>

Next ==
  \/ MainLoad
  \/ MainSpawn
  \/ MainRoot
  \/ WalkNoSend
  \/ \E w \in Workers : WalkSend(w)
  \/ \E w \in Workers : MainSendNil(w)
  \/ MainWait
  \/ MainSleep
  \/ MainMarshal
  \/ MainWriteFile
  \/ MainNotify
  \/ MainLog
  \/ \E w \in Workers : WorkerDone(w)
  \/ \E w \in Workers : WorkerSend(w)
  \/ OutMerge

\* One run of the program.
Spec == Init /\ [][Next]_vars

\* Successive runs from cron.
RunsNext == Next \/ Restart
RunsSpec == Init /\ [][RunsNext]_vars

\* One run under fair scheduling: the Go scheduler eventually runs a
\* goroutine that can take a step, and completes a channel operation both
\* of whose sides are waiting.
MainStep ==
  \/ MainLoad \/ MainSpawn \/ MainRoot \/ WalkNoSend \/ MainWait \/ MainSleep
  \/ MainMarshal \/ MainWriteFile \/ MainNotify \/ MainLog

Fairness ==
  /\ WF_vars(MainStep)
  /\ WF_vars(\E w \in Workers : WalkSend(w))
  /\ WF_vars(\E w \in Workers : MainSendNil(w))
  /\ \A w \in 1..MaxWorkers : WF_vars(w \in Workers /\ WorkerDone(w))
  /\ \A w \in 1..MaxWorkers : WF_vars(w \in Workers /\ WorkerSend(w))
  /\ WF_vars(OutMerge)

LiveSpec == Init /\ [][Next]_vars /\ Fairness

\* ----------------------------------------------------------- vocabulary
\* The *fInfo pointers handed to the work queue so far.
Ptrs == 1..Len(heap)

\* Every configured root has been walked: no descriptor will be produced.
WalkFinished == rootIdx > Len(conf.Folders) /\ walkTodo = <<>>

\* main is past wg.Wait() (line 229).
PastJoin == mainPc \in {"sleep", "marshal", "write", "notify", "log", "exited", "crashed"}

\* main has written the storage file (line 234).
Persisted == mainPc \in {"notify", "log", "exited"}

\* The number of times path p occurs in the list l.
Count(l, p) == Cardinality({k \in 1..Len(l) : l[k] = p})

\* The paths of a list, as a set.
Range(l) == {l[k] : k \in 1..Len(l)}

\* ------------------------------------------------------------------ C1
\* C1: when main reads globalO to persist it (line 232; b is that copy),
\* the copy has an entry for the path of every descriptor the walker
\* handed out, and no result is still unmerged.
C1_SnapshotCompleteAtPersist ==
  mainPc = "write" =>
    \A ptr \in Ptrs : heap[ptr].name \in DOMAIN b /\ hMerged[ptr] >= 1

\* ------------------------------------------------------------------ C2
\* C2: no worker receives a sentinel before the walk of the last root has
\* returned; main is not past the join before every worker has received a
\* sentinel and called wg.Done(); so no worker has left its loop while a
\* descriptor is still to be handed out.
C2_ShutdownOrdering ==
  /\ (sentI > 0 \/ \E w \in Workers : hNil[w] > 0) => WalkFinished
  /\ PastJoin => \A w \in Workers : hNil[w] >= 1 /\ wPc[w] = "done"
  /\ \A w \in Workers : wPc[w] = "done" => WalkFinished

\* Two roots were walked with two workers, and main is past the join.
C2_Witness ==
  /\ mainPc = "sleep" /\ nPtr = 2
  /\ Len(conf.Folders) = 2 /\ Len(heap) >= 4

\* ------------------------------------------------------------------ C3
\* C3: once the snapshot is persisted, the Outputter has been told to
\* finalize and has left its receive loop with every result merged.
C3_AggregatorFinalizedBeforePersist ==
  Persisted => outPc = "done" /\ \A ptr \in Ptrs : hMerged[ptr] = 1

\* ------------------------------------------------------------------ C4
\* C4: every descriptor handed to the work queue was received by exactly
\* one worker; it is either still held by exactly one worker or exactly
\* one result was sent for it, carrying its path, and received by the
\* Outputter; it is merged at most once; past the join every descriptor
\* has its result received.
C4_ExactlyOnce ==
  \A ptr \in Ptrs :
    /\ hRecv[ptr] = 1
    /\ Cardinality({w \in Workers : wPc[w] = "got" /\ fileToCheck[w] = ptr})
         + hRes[ptr] = 1
    /\ hResOk[ptr]
    /\ hMerged[ptr] <= hRes[ptr]
    /\ hMerged[ptr] + (IF outPc = "merge" /\ outPtr = ptr THEN 1 ELSE 0) = hRes[ptr]
    /\ PastJoin => hRes[ptr] = 1

\* Five descriptors (a nested root) went through a pool of two workers.
C4_Witness ==
  /\ PastJoin /\ nPtr = 2 /\ Len(heap) = 5
  /\ \A ptr \in Ptrs : hRes[ptr] = 1

\* ------------------------------------------------------------------ C5
\* C5: main sends at most N nils and exactly N once it waits; no worker
\* receives two, and past the join each has received one; a worker that
\* has left its loop did so holding a nil; the WaitGroup counts the
\* workers that have not acknowledged.
C5_OneSentinelPerWorker ==
  /\ sentI <= nPtr
  /\ sentI = Cardinality({w \in Workers : hNil[w] = 1})
  /\ mainPc \in {"wait"} \cup {"sleep", "marshal", "write", "notify", "log", "exited",
                              "crashed"} => sentI = nPtr
  /\ \A w \in Workers :
       /\ hNil[w] <= 1
       /\ wPc[w] = "done" => hNil[w] = 1 /\ fileToCheck[w] = 0
       /\ PastJoin => hNil[w] = 1
  /\ mainPc \notin {"load", "spawn"} =>
       wg = nPtr - Cardinality({w \in Workers : wPc[w] = "done"})

\* Two workers each took a nil after having checksummed files.
C5_Witness ==
  /\ nPtr = 2 /\ Len(heap) >= 3
  /\ \A w \in Workers : wPc[w] = "done" /\ hNil[w] = 1

\* ------------------------------------------------------------------ C6
\* main has begun the persist step (lines 232-234).
ReachedPersist == mainPc \in {"marshal", "write", "notify", "log", "exited", "crashed"}

\* C6: under fair scheduling no run gets stuck while the process is alive,
\* and every run reaches a state where the walk of every root has
\* returned, every worker has taken its nil and left its loop, and main is
\* past the join and at the persist step.
C6_CleanShutdown ==
  /\ [](Alive => ENABLED Next)
  /\ <>(WalkFinished /\ (\A w \in Workers : wPc[w] = "done") /\ PastJoin
          /\ ReachedPersist)

\* ------------------------------------------------------------------ C7
\* C7: the step in which the Outputter merges a result (path, checksum)
\* appends path to newfiles only when path is not a key of globalI, to
\* globalDiff only when it is a key with another checksum, to neither
\* when it is a key with this checksum, and in every case leaves
\* globalO[path] = checksum with all other entries as they were.
C7_Classification ==
  [][ (outPc = "merge" /\ outPc' = "recv") =>
        LET path == out.File
            sum  == out.Checksum
        IN  /\ path \in DOMAIN globalO' /\ globalO'[path] = sum
            /\ DOMAIN globalO' = DOMAIN globalO \cup {path}
            /\ \A q \in DOMAIN globalO \ {path} : globalO'[q] = globalO[q]
            /\ globalI' = globalI
            /\ path \notin DOMAIN globalI =>
                 newfiles' = Append(newfiles, path) /\ globalDiff' = globalDiff
            /\ (path \in DOMAIN globalI /\ globalI[path] # sum) =>
                 globalDiff' = Append(globalDiff, path) /\ newfiles' = newfiles
            /\ (path \in DOMAIN globalI /\ globalI[path] = sum) =>
                 globalDiff' = globalDiff /\ newfiles' = newfiles ]_vars

\* All three cases have happened in one scan: /r/a unchanged, /r/d/b
\* changed and stored with its new digest, /r/d/n new.
C7_Witness ==
  /\ DOMAIN globalO = {"/r/a", "/r/d/b", "/r/d/n"}
  /\ "/r/a" \in DOMAIN globalI /\ globalI["/r/a"] = globalO["/r/a"]
  /\ "/r/d/b" \in DOMAIN globalI /\ globalI["/r/d/b"] # globalO["/r/d/b"]
  /\ globalO["/r/d/b"] = SHA1Hex("B")
  /\ globalDiff = <<"/r/d/b">> /\ newfiles = <<"/r/d/n">>

\* ------------------------------------------------------------------ C8
\* The report main wrote to the log in this run (lines 256-264).
LastReport == logged[Len(logged)]

\* C8: when the scan has ended, every scanned file that is not a key of
\* the prior snapshot occurs exactly once in the reported new-files list.
C8_NewFilesExactlyOnce ==
  mainPc = "exited" =>
    \A ptr \in Ptrs :
      heap[ptr].name \notin DOMAIN globalI => Count(LastReport.new, heap[ptr].name) = 1

\* ------------------------------------------------------------------ C9
\* The files the scan checksummed.
Scanned == {heap[ptr].name : ptr \in Ptrs}

\* The outcome of the scan when results are merged one after the other
\* and all of them before main reads: it depends on the files and the
\* prior snapshot only.
SerialSnapshot == [p \in Scanned |-> checkSumSHA1(p)]
SerialNew == {p \in Scanned : p \notin DOMAIN globalI}
SerialChanged ==
  {p \in Scanned : p \in DOMAIN globalI /\ globalI[p] # checkSumSHA1(p)}

\* C9: whatever the pool size and the interleaving, a finished scan has
\* persisted the same snapshot and reported the same sets of new and
\* changed files as the serial scan of the same files against the same
\* prior snapshot; so scans with 1 and with many workers agree.
C9_PoolSizeIndependent ==
  mainPc = "exited" =>
    /\ storage = SerialSnapshot
    /\ Range(LastReport.new) = SerialNew
    /\ Range(LastReport.changed) = SerialChanged

\* A scan with one worker that ends with the serial outcome: the outcome
\* the scans of C9 are compared with is one the program can produce.
C9_SerialOutcomeReached ==
  /\ mainPc = "exited" /\ nPtr = 1 /\ conf.Folders = <<"/r">>
  /\ storage = SerialSnapshot
  /\ Range(LastReport.new) = SerialNew
  /\ Range(LastReport.changed) = SerialChanged

\* ----------------------------------------------------------------- C10
\* C10: when a first run has persisted its snapshot and a second run has
\* scanned the unchanged tree against it, the second run reports no new
\* and no changed file.
C10_SecondRunReportsNothing ==
  (run = 2 /\ mainPc = "exited" /\ Len(logged) = 2) =>
    LastReport.new = <<>> /\ LastReport.changed = <<>>

\* ----------------------------------------------------------------- C11
\* The keys of the prior snapshot the scan has not visited.
Stale == {p \in DOMAIN globalI : p \notin Scanned}

\* C11 as claimed: once the snapshot is persisted, every key of the prior
\* snapshot that the scan did not visit is a key of the persisted snapshot
\* with its prior checksum.
C11_StaleCarriedForward ==
  Persisted => \A p \in Stale : p \in DOMAIN storage /\ storage[p] = globalI[p]

\* C11 as amended: globalO starts empty and only scanned paths are stored
\* in it, so a key of the prior snapshot that the scan does not visit is
\* never a key of globalO, is in neither list, and is absent from the
\* snapshot this run persists.
C11_StaleDropped ==
  /\ DOMAIN globalO \subseteq Scanned
  /\ \A p \in Stale :
       /\ p \notin DOMAIN globalO
       /\ p \notin Range(newfiles) /\ p \notin Range(globalDiff)
  /\ Persisted => DOMAIN storage \subseteq Scanned

\* The prior snapshot had /r/gone, and the snapshot persisted by a scan
\* of /r has lost it while keeping scanned files.
C11_Witness ==
  /\ Persisted
  /\ "/r/gone" \in DOMAIN globalI /\ "/r/gone" \notin DOMAIN storage
  /\ "/r/a" \in DOMAIN storage

\* ----------------------------------------------------------------- C12
\* Successive runs over one root, each run's prior snapshot being what the
\* previous run stored.
ErrRunsInit == Init /\ conf.Folders = <<"/r">>
ErrRunsSpec == ErrRunsInit /\ [][RunsNext]_vars

\* The text checkSumSHA1 returns when os.Open fails on p (line 90).
OpenError(p) == "open " \o p \o ": permission denied"

\* The scanned files os.Open fails on.
Unreadable == {p \in Scanned : ~Entry(p).readable}

\* Every result of this run was merged before main read the lists.
ReportComplete ==
  /\ mainPc = "exited"
  /\ \A ptr \in Ptrs : hMerged[ptr] = 1
  /\ LastReport.changed = globalDiff /\ LastReport.new = newfiles

\* C12: in a later run, a file that is still unreadable and was stored by
\* the previous run is reported in changed-files (stated for the runs
\* whose report has every result merged).
C12_UnreadableReportedEveryRun ==
  (run >= 2 /\ ReportComplete) =>
    \A p \in Unreadable : p \in DOMAIN globalI => p \in Range(LastReport.changed)

\* ----------------------------------------------------------------- C13
\* Whether the entry at path p is anc or lies beneath it in the tree.
RECURSIVE Under(_, _)
Under(anc, p) ==
  IF p = anc THEN TRUE
  ELSE IF Entry(p).parent = "/" THEN FALSE
  ELSE Under(anc, Entry(p).parent)

\* The path main walks for a configured root (lines 214-221).
ResolvedRoot(root) ==
  IF Entry(root).kind = "symlink" THEN EvalSymlinks(root) ELSE root

\* The entries beneath root number k that Walk cannot stat, the
\* and the directories it cannot read.
LstatFailures(k) ==
  {e.path : e \in {x \in Entries :
     ~x.lstatOk /\ Under(ResolvedRoot(conf.Folders[k]), x.path)}}
UnreadableDirs(k) ==
  {e.path : e \in {x \in Entries :
     x.lstatOk /\ x.kind = "dir" /\ ~x.readable
       /\ Under(ResolvedRoot(conf.Folders[k]), x.path)}}
\* The number of walk errors met in the walks of roots 1..k.
RECURSIVE WalkErrorsMet(_)
WalkErrorsMet(k) ==
  IF k = 0 THEN 0
  ELSE WalkErrorsMet(k - 1) + Cardinality(LstatFailures(k))
         + Cardinality(UnreadableDirs(k))

\* C13: no error met during a scan ends the run, and the error list of
\* the final report has an entry for every walk error met (entries that
\* cannot be stat'd, directories that cannot be read) and for every file
\* that could not be opened.
C13_EveryErrorLogged ==
  /\ mainPc # "panicked"
  /\ mainPc = "exited" =>
       Len(LastReport.errors) =
         WalkErrorsMet(Len(conf.Folders))
           + Cardinality({ptr \in Ptrs : ~Entry(heap[ptr].name).readable})

\* ----------------------------------------------------------------- C14
\* Configurations with an ignore list: an entry written as the full path
\* of a directory under the root (the form of the usage text, line 174),
\* entries written as the root immediately followed by a base name (what
\* line 116 compares with) naming a directory, a file and a nested file,
\* and a symlinked root with entries relative to the configured root.
IgnoreConfigs ==
  { [Folders |-> <<"/r">>, Ignored |-> <<"/r/d">>],
    [Folders |-> <<"/r">>, Ignored |-> <<"/rd">>],
    [Folders |-> <<"/r">>, Ignored |-> <<"/ra">>],
    [Folders |-> <<"/r">>, Ignored |-> <<"/rb">>],
    [Folders |-> <<"/l">>, Ignored |-> <<"/l/d", "/ld">>] }

IgnoreInit ==
  /\ conf \in IgnoreConfigs
  /\ nPtr \in 1..MaxWorkers
  /\ storage \in PriorSnapshots
  /\ ProcessStart(globalI, globalO, globalDiff, newfiles, ferrors, currentRoot, wg,
                  mainPc, rootIdx, walkTodo, sentI, heap, wPc, fileToCheck,
                  outPc, out, b)
  /\ slack = <<>> /\ logged = <<>>
  /\ run = 1
  /\ HistoryStart(hRecv, hRes, hResOk, hMerged, hNil, outPtr)
  /\ cs = SumIdle

IgnoreSpec == IgnoreInit /\ [][Next]_vars

\* The entries beneath some walked root.
BeneathRoots ==
  {e.path : e \in {x \in Entries :
     \E j \in 1..Len(conf.Folders) : Under(ResolvedRoot(conf.Folders[j]), x.path)}}

\* C14: no entry beneath a root whose full path equals an ignore entry,
\* and no path nested beneath such an entry, is ever handed to the work
\* queue, is a key of the new snapshot, or is in new-files or
\* changed-files.
C14_IgnoredNeverEmitted ==
  \A k \in 1..Len(conf.Ignored) : \A p \in BeneathRoots :
    Under(conf.Ignored[k], p) =>
      /\ p \notin Scanned
      /\ p \notin DOMAIN globalO
      /\ p \notin Range(newfiles)
      /\ p \notin Range(globalDiff)

\* ----------------------------------------------------------------- C15
\* C15: during the walk of a root the prefix of the ignore test is the
\* configured root, so an ignore entry formed from the configured root
\* and the name of an entry beneath the resolved target keeps that entry
\* and everything beneath it from being handed to the work queue.
C15_IgnorePrefixIsConfiguredRoot ==
  /\ mainPc = "walk" => currentRoot = conf.Folders[rootIdx]
  /\ \A j \in 1..Len(conf.Folders) : \A e \in Entries :
       ( /\ Entry(conf.Folders[j]).kind = "symlink"
         /\ Under(ResolvedRoot(conf.Folders[j]), e.path)
         /\ \/ inSlice(conf.Ignored, conf.Folders[j] \o e.name)
            \/ inSlice(conf.Ignored, conf.Folders[j] \o "/" \o e.name) )
       => \A q \in Scanned : ~Under(e.path, q)

\* ----------------------------------------------------------------- C16
\* main reads globalO (line 232) or newfiles and globalDiff (lines
\* 236-263) in this step.
MainReadsAggregate ==
  \/ mainPc = "marshal" /\ mainPc' # "marshal"
  \/ mainPc = "notify" /\ mainPc' = "log"
  \/ mainPc = "log" /\ mainPc' = "exited"

\* The Outputter holds a result whose writes to globalO, newfiles and
\* globalDiff (lines 156-165) are still to come.
OutputterCanWrite == outPc = "merge"

\* C16: main takes no step that reads globalO, newfiles or globalDiff
\* from a state in which the Outputter can still write them, and once it
\* is loaded globalI is never written.
C16_RaceFreeAggregation ==
  [][ /\ MainReadsAggregate => ~OutputterCanWrite
      /\ mainPc # "load" => globalI' = globalI ]_vars

\* ----------------------------------------------------------------- C17
\* checkSumSHA1 statement by statement.  cs.sz is fi.sz (the size Lstat
\* reported to the walk), cs.len the length of the file when it is read,
\* cs.off the file offset, cs.reads the buffers made so far (their size
\* and the number of bytes file.Read put into them), cs.fed the bytes
\* written to the hash so far.
\*
\* A byte stream is a sequence of segments: bytes from..to-1 of the file,
\* or `to` zero bytes (what make([]byte, n) holds where Read stored
\* nothing).  Glue keeps the sequence canonical, so two streams are the
\* same bytes exactly when the sequences are equal.
Min(x, y) == IF x <= y THEN x ELSE y
Max(x, y) == IF x >= y THEN x ELSE y

Glue(stream, seg) ==
  IF seg.to = seg.from THEN stream
  ELSE IF stream # <<>> /\ stream[Len(stream)].zero = seg.zero
            /\ (seg.zero \/ stream[Len(stream)].to = seg.from)
    THEN [stream EXCEPT ![Len(stream)].to =
            IF seg.zero THEN @ + seg.to ELSE seg.to]
  ELSE Append(stream, seg)

\* The whole file, as a one-pass hash would be given it.
OnePass(len) == Glue(<<>>, [zero |-> FALSE, from |-> 0, to |-> len])

\* hex.EncodeToString(hash.Sum(nil)) for the bytes written to the hash:
\* one digest per byte stream.
SumHex(stream) == [err |-> "", hex |-> stream]

\* Line 90: fmt.Sprintf("%v", err).
SumErr(pathname) == [err |-> OpenError(pathname), hex |-> <<>>]

\* Line 95: uint64(math.Ceil(float64(filesize) / float64(CHUNKSIZE))).
Blocks(filesize) == (filesize + CHUNKSIZE - 1) \div CHUNKSIZE

\* Mutant of BlockSize: every buffer is a full chunk.
BlockSize_NoMin(filesize, i) == CHUNKSIZE

\* Line 100: int(math.Min(float64(CHUNKSIZE), float64(filesize-int64(i*CHUNKSIZE)))).
BlockSize(filesize, i) == Min(CHUNKSIZE, filesize - i * CHUNKSIZE)

\* Line 103: the number of bytes file.Read stores in a buffer of that
\* size at file offset off of a regular file of length len.
FileRead(len, off, size) == Min(size, Max(len - off, 0))

\* The sizes Lstat may report, and for each the lengths the file may have
\* when it is read (unchanged, truncated by a byte, grown by a byte).
FileSizes == {k * CHUNKSIZE + d : k \in 0..MaxBlocks, d \in {0, 1, CHUNKSIZE - 1}}
FileLens(sz) == {l \in {sz - 1, sz, sz + 1} : l >= 0}

SumInit ==
  /\ conf = [Folders |-> <<"/r">>, Ignored |-> <<>>]
  /\ nPtr = 1
  /\ storage = EmptyMap
  /\ ProcessStart(globalI, globalO, globalDiff, newfiles, ferrors, currentRoot, wg,
                  mainPc, rootIdx, walkTodo, sentI, heap, wPc, fileToCheck,
                  outPc, out, b)
  /\ slack = <<>> /\ logged = <<>>
  /\ run = 1
  /\ HistoryStart(hRecv, hRes, hResOk, hMerged, hNil, outPtr)
  /\ \E sz \in FileSizes : \E len \in FileLens(sz) : \E ok \in BOOLEAN :
       cs = [SumIdle EXCEPT !.pc = "open", !.sz = sz, !.len = len, !.openOk = ok]

sumFrame ==
  UNCHANGED <<conf, nPtr, storage, globalVars, mainVars, workerVars, outVars,
              reportVars, run, histVars>>

\* Lines 86-97: os.Open, the early return on its error, blocks, sha1.New().
SumOpen ==
  /\ cs.pc = "open"
  /\ \/ /\ ~cs.openOk
        /\ cs' = [cs EXCEPT !.pc = "done", !.result = SumErr("/r/a")]
     \/ /\ cs.openOk
        /\ cs' = [cs EXCEPT !.pc = "loop", !.blocks = Blocks(cs.sz), !.i = 0]
  /\ sumFrame

\* Lines 99-105: one iteration of the loop.
SumRead ==
  /\ cs.pc = "loop"
  /\ cs.i < cs.blocks
  /\ LET blocksize == BlockSize(cs.sz, cs.i)
         n         == FileRead(cs.len, cs.off, blocksize)
     IN  cs' = [cs EXCEPT
                  !.reads = Append(@, [size |-> blocksize, n |-> n]),
                  !.fed   = Glue(Glue(@, [zero |-> FALSE, from |-> cs.off,
                                          to |-> cs.off + n]),
                                 [zero |-> TRUE, from |-> 0, to |-> blocksize - n]),
                  !.off   = @ + n,
                  !.i     = @ + 1]
  /\ sumFrame

\* Lines 99 and 107: the loop ends, the digest is returned.
SumReturn ==
  /\ cs.pc = "loop"
  /\ cs.i >= cs.blocks
  /\ cs' = [cs EXCEPT !.pc = "done", !.result = SumHex(cs.fed)]
  /\ sumFrame

SumNext == SumOpen \/ SumRead \/ SumReturn
SumSpec == SumInit /\ [][SumNext]_vars

\* The least number of chunks of c bytes that hold s bytes.
Ceiling(s, c) == CHOOSE n \in 0..s : n * c >= s /\ (n = 0 \/ (n - 1) * c < s)

RECURSIVE SumOfSizes(_)
SumOfSizes(reads) ==
  IF reads = <<>> THEN 0
  ELSE reads[Len(reads)].size + SumOfSizes(SubSeq(reads, 1, Len(reads) - 1))

\* C17: for a file opened with declared size s, the k-th chunk read has
\* size min(CHUNKSIZE, bytes remaining of s before it); when the function
\* returns it has read ceil(s / CHUNKSIZE) chunks whose sizes sum to s; for
\* a file whose length is its declared size the bytes written to the hash
\* are the file's contents in order, so the digest is that of a one-pass
\* hash; for s = 0 no chunk is read and the digest is that of the empty
\* input.
C17_ChunkedChecksum ==
  cs.openOk =>
    /\ \A k \in 1..Len(cs.reads) :
         cs.reads[k].size = Min(CHUNKSIZE, cs.sz - (k - 1) * CHUNKSIZE)
    /\ cs.pc = "done" =>
         /\ Len(cs.reads) = Ceiling(cs.sz, CHUNKSIZE)
         /\ SumOfSizes(cs.reads) = cs.sz
         /\ cs.len = cs.sz => cs.result = SumHex(OnePass(cs.len))
         /\ cs.sz = 0 => cs.reads = <<>> /\ cs.result = SumHex(<<>>)

\* The call returned for a file of one full chunk and one byte that was
\* read in two chunks, the second of one byte.
C17_Witness ==
  /\ cs.pc = "done" /\ cs.openOk
  /\ cs.sz = CHUNKSIZE + 1 /\ cs.len = cs.sz
  /\ Len(cs.reads) = 2 /\ cs.reads[2].size = 1
  /\ cs.result = SumHex(OnePass(cs.sz))

\* ----------------------------------------------------------------- C18
\* The descriptors handed to a worker whose result is not merged yet.
Unmerged == {ptr \in Ptrs : hMerged[ptr] = 0}

\* C18: at most nPtr + 1 descriptors are handed off and not yet merged,
\* and each of them is in the hands of a goroutine - the worker that
\* received it and has not sent its result, or the Outputter that
\* received its result and has not merged it - never waiting in a queue.
C18_BoundedInFlight ==
  /\ Cardinality(Unmerged) <= nPtr + 1
  /\ \A ptr \in Unmerged :
       \/ \E w \in Workers : wPc[w] = "got" /\ fileToCheck[w] = ptr
       \/ outPc = "merge" /\ outPtr = ptr /\ out.File = heap[ptr].name

\* Two workers each hold a descriptor while the Outputter holds an
\* unmerged result: nPtr + 1 in flight.
C18_Witness ==
  /\ nPtr = 2
  /\ Cardinality(Unmerged) = 3
  /\ outPc = "merge"
  /\ \A w \in Workers : wPc[w] = "got" /\ fileToCheck[w] \in Unmerged

\* ----------------------------------------------------------------- C19
\* C19: once wg.Wait() has returned, the Outputter has received the
\* result of every descriptor handed out, and at most one of these
\* results - the one the Outputter holds - is not merged yet.
C19_ResultsReceivedAtJoin ==
  PastJoin =>
    /\ \A ptr \in Ptrs : hRes[ptr] = 1
    /\ Cardinality(Unmerged) <= 1
    /\ \A ptr \in Unmerged : outPc = "merge" /\ outPtr = ptr

\* The join has returned after three files and the last result is still
\* in the Outputter's hands.
C19_Witness ==
  /\ mainPc = "sleep"
  /\ Len(heap) >= 3
  /\ Cardinality(Unmerged) = 1
  /\ outPc = "merge"

\* ----------------------------------------------------------------- C20
\* C20: when main has written its report, every path the report lists as
\* new or changed is a key of the snapshot it persisted, and every key of
\* the persisted snapshot that the prior snapshot lacks is listed as new.
C20_ReportMatchesSnapshot ==
  mainPc = "exited" =>
    /\ Range(LastReport.new) \cup Range(LastReport.changed) \subseteq DOMAIN storage
    /\ \A p \in DOMAIN storage : p \notin DOMAIN globalI => p \in Range(LastReport.new)

====
